---- MODULE Spec2Model ----
(***************************************************************************)
(* Back Pain Diagnosis Assistant (back_pain_streamlit.py).                 *)
(*                                                                         *)
(* The script is re-executed top to bottom on every user interaction.      *)
(* The state that survives between executions is st.session_state; the     *)
(* widgets rendered by the last execution are what the user can click.     *)
(***************************************************************************)
EXTENDS FiniteSets, Integers, Sequences, TLC

\* ------------------------------------------------------------------------
\* Bounds of the model
\* ------------------------------------------------------------------------

\* build_symptom_list returns list(set): an enumeration order that depends
\* on string hashing.  The model lets it be the sorted universe rotated by
\* 0..MaxRotation places.
MaxRotation == 1

\* Iterating possible_diags (a set of str) follows the string hashes of the
\* process.  The model lets the order be kb.keys() rotated by
\* 0..MaxKeyRotation places.
MaxKeyRotation == 2

\* ------------------------------------------------------------------------
\* Knowledge base
\* ------------------------------------------------------------------------

NoSymptom == "none"
NoDiag == "none"

kb ==
  [ muscular_strain |->
      [ name |-> "Muscular Strain",
        required_symptoms |-> {"localized_back_pain"},
        optional_symptoms |-> {"pain_with_movement", "muscle_tightness",
                               "improves_with_rest", "stiffness_morning"},
        red_flags |-> {} ],
    disc_herniation |->
      [ name |-> "Disc Herniation",
        required_symptoms |-> {"radiating_leg_pain",
                               "pain_shoots_when_cough_or_sneeze",
                               "sharp_burning_back_or_leg_pain"},
        optional_symptoms |-> {"numbness", "tingling", "leg_weakness",
                               "pain_in_buttocks_or_thigh", "pain_in_foot",
                               "pain_when_lifting_or_twisting",
                               "pain_in_arm_or_shoulder"},
        red_flags |-> {"bladder_dysfunction", "saddle_anesthesia",
                       "progressive_leg_weakness"} ],
    sciatica |->
      [ name |-> "Sciatica / Radiculopathy",
        required_symptoms |-> {"radiating_leg_pain",
                               "pain_shoots_when_cough_or_sneeze",
                               "numbness", "tingling"},
        optional_symptoms |-> {"leg_weakness", "urinary_incontinence",
                               "fecal_incontinence", "pain_on_lifting_leg",
                               "leg_pain_below_knee"},
        red_flags |-> {"urinary_incontinence", "fecal_incontinence"} ] ]

\* kb.keys(): a dict keeps its insertion order.
KbKeys == <<"muscular_strain", "disc_herniation", "sciatica">>

Range(seq) == { seq[i] : i \in 1..Len(seq) }

\* symptoms of one diagnosis: required_symptoms | optional_symptoms
SymptomsOf(d) == kb[d].required_symptoms \cup kb[d].optional_symptoms

\* build_symptom_list: the union of required and optional symptoms of
\* every diagnosis (as a set; the list order is taken apart below).
SymptomUniverse == UNION { SymptomsOf(d) : d \in Range(KbKeys) }

\* Python's order on str for the identifiers of the knowledge base
\* (code-point order), as the sorted enumeration of the universe.
SortedSymptoms ==
  << "fecal_incontinence", "improves_with_rest", "leg_pain_below_knee",
     "leg_weakness", "localized_back_pain", "muscle_tightness", "numbness",
     "pain_in_arm_or_shoulder", "pain_in_buttocks_or_thigh", "pain_in_foot",
     "pain_on_lifting_leg", "pain_shoots_when_cough_or_sneeze",
     "pain_when_lifting_or_twisting", "pain_with_movement",
     "radiating_leg_pain", "sharp_burning_back_or_leg_pain",
     "stiffness_morning", "tingling", "urinary_incontinence" >>

StrRank(s) == CHOOSE i \in 1..Len(SortedSymptoms) : SortedSymptoms[i] = s

StrLess(a, b) == StrRank(a) < StrRank(b)

Rotate(seq, k) ==
  [ i \in 1..Len(seq) |-> seq[((i - 1 + k) % Len(seq)) + 1] ]

\* the lists build_symptom_list may return
build_symptom_list == { Rotate(SortedSymptoms, k) : k \in 0..MaxRotation }

\* the orders in which set(kb.keys()) may be iterated: fixed by the hash
\* seed of the process
SetOrders == { Rotate(KbKeys, k) : k \in 0..MaxKeyRotation }

\* ------------------------------------------------------------------------
\* The steps of one execution of the script
\* ------------------------------------------------------------------------

\* a prune that also drops a diagnosis for a denied optional symptom
Prune_OptionalToo(diags, a, p) ==
  { d \in diags : ~ \E sym \in SymptomsOf(d) : sym \in a /\ sym \notin p }

\* a prune recomputed from all keys that puts a diagnosis back once one of
\* its required symptoms is provided
Prune_Rebuild(diags, a, p) ==
  { d \in Range(KbKeys) :
      \/ kb[d].required_symptoms \cap p # {}
      \/ ~ \E req \in kb[d].required_symptoms : req \in a /\ req \notin p }

\* a prune that drops a diagnosis only when all its required symptoms were
\* denied (all() for any())
Prune_AllDenied(diags, a, p) ==
  { d \in diags : ~ \A req \in kb[d].required_symptoms : req \in a /\ req \notin p }

\* a prune that removes one diagnosis and stops
Prune_OneAtATime(diags, a, p) ==
  LET bad == { d \in diags :
                 \E req \in kb[d].required_symptoms : req \in a /\ req \notin p }
  IN  IF bad = {} THEN diags
      ELSE diags \ { CHOOSE d \in bad : TRUE }

\* the prune loop: a diagnosis leaves possible_diags when one of its
\* required symptoms was asked and not provided
Prune(diags, a, p) ==
  { d \in diags : ~ \E req \in kb[d].required_symptoms : req \in a /\ req \notin p }

\* candidate symptoms taken from the whole knowledge base
CandidateSymptoms_All(diags) == UNION { SymptomsOf(d) : d \in Range(KbKeys) }

\* candidate symptoms taken from the required symptoms alone
CandidateSymptoms_RequiredOnly(diags) ==
  UNION { kb[d].required_symptoms : d \in diags }

\* candidate_symptoms: the symptoms of the diagnoses still possible
CandidateSymptoms(diags) == UNION { SymptomsOf(d) : d \in diags }

\* candidates that keep the symptoms already asked
Candidates_AskedAgain(list, a, cs) ==
  LET Keep(s) == s \in cs IN SelectSeq(list, Keep)

\* candidates: the unasked candidate symptoms, in the order of symptom_list
Candidates(list, a, cs) ==
  LET Keep(s) == s \notin a /\ s \in cs IN SelectSeq(list, Keep)

\* a heuristic that is the count itself, not its negation
Heuristic_Positive(symptom, diags) ==
  Cardinality({ d \in diags : symptom \in kb[d].required_symptoms
                               \/ symptom \in kb[d].optional_symptoms })

\* heuristic[symptom] = -count
Heuristic(symptom, diags) ==
  0 - Cardinality({ d \in diags : symptom \in kb[d].required_symptoms
                                   \/ symptom \in kb[d].optional_symptoms })

\* the order of the (heuristic, symptom) tuples in the PriorityQueue
TupleLess(t, u) == t[1] < u[1] \/ (t[1] = u[1] /\ StrLess(t[2], u[2]))

\* a linear scan that takes the first candidate of the best heuristic in
\* the order of the candidates list
QueueGet_ListOrder(cands, diags) ==
  LET i == CHOOSE j \in 1..Len(cands) :
             /\ \A k \in 1..Len(cands) :
                  Heuristic(cands[j], diags) <= Heuristic(cands[k], diags)
             /\ \A k \in 1..(j - 1) :
                  Heuristic(cands[j], diags) < Heuristic(cands[k], diags)
  IN  <<Heuristic(cands[i], diags), cands[i]>>

\* queue.put of every candidate, then queue.get(): the smallest tuple
QueueGet(cands, diags) ==
  LET items == { <<Heuristic(c, diags), c>> : c \in Range(cands) }
  IN  CHOOSE t \in items : \A u \in items \ {t} : TupleLess(t, u)

\* the result shown when no diagnosis was scored
Unable == "unable"

\* scoring over possible_diags without the fallback to kb.keys()
ScoredKeys_NoFallback(diags, order) ==
  LET In(k) == k \in diags IN SelectSeq(order, In)

\* the keys the scoring loop iterates: possible_diags or kb.keys()
ScoredKeys(diags, order) ==
  LET In(k) == k \in diags
  IN  IF diags # {} THEN SelectSeq(order, In) ELSE KbKeys

RequiredWeight == 2

\* a score with the two weights exchanged
Score_WeightsSwapped(key, p) ==
  Cardinality(kb[key].required_symptoms \cap p)
    + RequiredWeight * Cardinality(kb[key].optional_symptoms \cap p)

\* a score that subtracts the optional matches
Score_OptionalSubtracted(key, p) ==
  RequiredWeight * Cardinality(kb[key].required_symptoms \cap p)
    - Cardinality(kb[key].optional_symptoms \cap p)

\* the score of one diagnosis
Score(key, p) ==
  RequiredWeight * Cardinality(kb[key].required_symptoms \cap p)
    + Cardinality(kb[key].optional_symptoms \cap p)

\* the scores dict
Scores(keys, p) == [ k \in Range(keys) |-> Score(k, p) ]

\* the first key scored, whatever its score
FinalDiagKey_First(keys, sc) == IF keys = <<>> THEN Unable ELSE keys[1]

\* max(scores, key=...): the first key of maximal score in dict order
FinalDiagKey(keys, sc) ==
  IF keys = <<>> THEN Unable
  ELSE keys[CHOOSE i \in 1..Len(keys) :
              /\ \A j \in 1..Len(keys) : sc[keys[j]] <= sc[keys[i]]
              /\ \A j \in 1..(i - 1) : sc[keys[j]] < sc[keys[i]]]

\* red flags collected from every diagnosis, not the final one alone
RedFlagsDetected_AnyDiag(key, p) ==
  IF key = Unable THEN {}
  ELSE p \cap UNION { kb[d].red_flags : d \in Range(KbKeys) }

\* the red flags of the final diagnosis, provided or not
RedFlagsDetected_All(key, p) ==
  IF key = Unable THEN {} ELSE kb[key].red_flags

\* red_flags_detected
RedFlagsDetected(key, p) ==
  IF key = Unable THEN {} ELSE p \cap kb[key].red_flags

\* ------------------------------------------------------------------------
\* State
\* ------------------------------------------------------------------------

VARIABLES
  provided,           \* st.session_state.provided
  asked,              \* st.session_state.asked
  finished,           \* st.session_state.finished
  symptom_list,       \* st.session_state.symptom_list
  possible_diags,     \* st.session_state.possible_diags
  set_order,          \* iteration order of a set of the keys (hash seed)
  question,           \* the symptom whose Yes/No buttons are rendered
  scores,             \* the scores dict of the last finished block
  final_diag_key,     \* the final diagnosis rendered
  red_flags_detected, \* the red flags rendered
  answered            \* answers given in this session

vars == << provided, asked, finished, symptom_list, possible_diags, set_order,
           question, scores, final_diag_key, red_flags_detected, answered >>

NoScores == [ k \in {} |-> 0 ]

\* the session state and the rendered page as one value
Page ==
  [ provided |-> provided, asked |-> asked, finished |-> finished,
    symptom_list |-> symptom_list, possible_diags |-> possible_diags,
    question |-> question, scores |-> scores,
    final_diag_key |-> final_diag_key,
    red_flags_detected |-> red_flags_detected,
    answered |-> answered, rerun |-> FALSE ]

Init ==
  /\ provided = {}
  /\ asked = {}
  /\ finished = FALSE
  /\ symptom_list = <<>>
  /\ possible_diags = Range(KbKeys)
  /\ set_order \in SetOrders
  /\ question = NoSymptom
  /\ scores = NoScores
  /\ final_diag_key = NoDiag
  /\ red_flags_detected = {}
  /\ answered = 0

\* a Yes button that forgets to record the symptom as asked
AnswerYes_ProvidedOnly(p, a, s) == [ provided |-> p \cup {s}, asked |-> a ]

\* the effect of the Yes button on the session sets
AnswerYes(p, a, s) == [ provided |-> p \cup {s}, asked |-> a \cup {s} ]

\* a No button that records the symptom as provided too
AnswerNo_AlsoProvided(p, a, s) == [ provided |-> p \cup {s}, asked |-> a \cup {s} ]

\* the effect of the No button on the session sets
AnswerNo(p, a, s) == [ provided |-> p, asked |-> a \cup {s} ]

\* a reset that leaves possible_diags as the last session pruned it
ResetSession_KeepDiags ==
  [ provided |-> {}, asked |-> {}, finished |-> FALSE, symptom_list |-> <<>>,
    possible_diags |-> possible_diags ]

\* the effect of the "Start New Diagnosis" button on the session state
ResetSession ==
  [ provided |-> {}, asked |-> {}, finished |-> FALSE, symptom_list |-> <<>>,
    possible_diags |-> Range(KbKeys) ]

\* One execution of the script from page s.  pressed is the button the user
\* clicked to cause it ("none" for a plain rerun); a button reads True only
\* when the widget with the clicked key is rendered again by this execution.
\* built is what build_symptom_list returns if it is called; order is the
\* iteration order of possible_diags.
Exec(s, pressed, built, order) ==
  LET list    == IF ~s.finished /\ s.symptom_list = <<>>
                 THEN built ELSE s.symptom_list
      diags   == IF s.finished THEN s.possible_diags
                 ELSE Prune(s.possible_diags, s.asked, s.provided)
      cands   == Candidates(list, s.asked, CandidateSymptoms(diags))
      asks    == ~s.finished /\ cands # <<>>
      symptom == IF asks THEN QueueGet(cands, diags)[2] ELSE NoSymptom
      yes     == asks /\ pressed = "yes" /\ symptom = s.question
      no      == asks /\ pressed = "no" /\ symptom = s.question
      after   == IF yes THEN AnswerYes(s.provided, s.asked, symptom)
                 ELSE IF no THEN AnswerNo(s.provided, s.asked, symptom)
                 ELSE [ provided |-> s.provided, asked |-> s.asked ]
      fin     == s.finished \/ ~asks
      keys    == ScoredKeys(diags, order)
      sc      == Scores(keys, s.provided)
      key     == FinalDiagKey(keys, sc)
      reset   == fin /\ pressed = "reset"
  IN  [ provided           |-> IF reset THEN ResetSession.provided
                               ELSE after.provided,
        asked              |-> IF reset THEN ResetSession.asked ELSE after.asked,
        finished           |-> IF reset THEN ResetSession.finished ELSE fin,
        symptom_list       |-> IF reset THEN ResetSession.symptom_list ELSE list,
        possible_diags     |-> IF reset THEN ResetSession.possible_diags
                               ELSE diags,
        question           |-> symptom,
        scores             |-> IF fin THEN sc ELSE NoScores,
        final_diag_key     |-> IF fin THEN key ELSE NoDiag,
        red_flags_detected |-> IF fin THEN RedFlagsDetected(key, s.provided)
                               ELSE {},
        answered           |-> IF reset THEN 0
                               ELSE IF yes \/ no THEN s.answered + 1
                               ELSE s.answered,
        rerun              |-> (yes \/ no) ]

\* an execution, followed by the execution that st.rerun() starts at once
ExecAll(s, pressed, built, order) ==
  LET t == Exec(s, pressed, built, order)
  IN  IF t.rerun THEN Exec(t, "none", built, order) ELSE t

\* the page t becomes the state
Show(t) ==
  /\ provided' = t.provided
  /\ asked' = t.asked
  /\ finished' = t.finished
  /\ symptom_list' = t.symptom_list
  /\ possible_diags' = t.possible_diags
  /\ question' = t.question
  /\ scores' = t.scores
  /\ final_diag_key' = t.final_diag_key
  /\ red_flags_detected' = t.red_flags_detected
  /\ answered' = t.answered
  /\ UNCHANGED set_order

\* what build_symptom_list returns where an execution from the current state
\* calls it (it is called only while symptom_list is empty)
Built == IF symptom_list = <<>> THEN build_symptom_list ELSE {symptom_list}

\* the script runs with no button pressed: first load, or a rerun asked for
\* by the user
Run ==
  \E built \in Built : Show(ExecAll(Page, "none", built, set_order))

\* the user clicks the Yes button of the rendered question
ClickYes ==
  /\ question # NoSymptom
  /\ \E built \in Built : Show(ExecAll(Page, "yes", built, set_order))

\* the user clicks the No button of the rendered question
ClickNo ==
  /\ question # NoSymptom
  /\ \E built \in Built : Show(ExecAll(Page, "no", built, set_order))

\* the user clicks "Start New Diagnosis" under the rendered result
StartNewDiagnosis ==
  /\ final_diag_key # NoDiag
  /\ \E built \in Built : Show(ExecAll(Page, "reset", built, set_order))

Next == Run \/ ClickYes \/ ClickNo \/ StartNewDiagnosis

Spec == Init /\ [][Next]_vars

TypeOK ==
  /\ provided \subseteq SymptomUniverse
  /\ asked \subseteq SymptomUniverse
  /\ finished \in BOOLEAN
  /\ possible_diags \subseteq Range(KbKeys)
  /\ question \in SymptomUniverse \cup {NoSymptom}
  /\ final_diag_key \in Range(KbKeys) \cup {NoDiag, Unable}
  /\ answered \in Nat

\* ------------------------------------------------------------------------
\* Properties
\* ------------------------------------------------------------------------

AllKeys == Range(KbKeys)

\* relevance of a symptom: the number of possible diagnoses that list it
Relevance(sym) == Cardinality({ d \in possible_diags : sym \in SymptomsOf(d) })

\* the candidate symptoms not yet asked
Unasked == UNION { SymptomsOf(d) : d \in possible_diags } \ asked

\* C1: a session takes at most as many answers as there are symptoms (19):
\* the count of answers never exceeds the size of the symptom universe, an
\* unfinished session that has begun always has a question open for the
\* user to answer, and every answer counts one up and leaves the session
\* finished or with a question open.
C1_Termination ==
  /\ [](answered <= Cardinality(SymptomUniverse))
  /\ [](~finished /\ asked # {} => question # NoSymptom)
  /\ [][ ClickYes \/ ClickNo =>
           /\ answered' = answered + 1
           /\ finished' \/ question' # NoSymptom ]_vars

C1_Witness == finished /\ answered = Cardinality(SymptomUniverse)

\* C2: after an execution a diagnosis is missing from possible_diags exactly
\* when one of its required symptoms was asked and denied.
C2_PruneRule ==
  \A d \in AllKeys :
    d \notin possible_diags
      <=> \E sym \in kb[d].required_symptoms : sym \in asked /\ sym \notin provided

C2_Witness ==
  /\ "muscular_strain" \notin possible_diags
  /\ "localized_back_pain" \in asked \ provided
  /\ "leg_weakness" \in asked \ provided
  /\ {"disc_herniation", "sciatica"} \subseteq possible_diags

\* C3: the question rendered has the largest relevance of all unasked
\* candidate symptoms.
C3_MaxRelevance ==
  question # NoSymptom =>
    \A c \in Unasked : Relevance(c) <= Relevance(question)

C3_Witness ==
  /\ question # NoSymptom
  /\ asked # {}
  /\ \E c \in Unasked : Relevance(c) < Relevance(question)

\* C4: the question rendered is one unasked symptom of a diagnosis that is
\* still possible, and every answer adds a symptom that was not asked before.
C4_QuestionIsFreshCandidate ==
  /\ question # NoSymptom =>
       /\ question \notin asked
       /\ \E d \in possible_diags : question \in SymptomsOf(d)
  /\ answered = Cardinality(asked)

C4_Witness ==
  /\ question # NoSymptom
  /\ asked # {}
  /\ \E d \in AllKeys \ possible_diags : SymptomsOf(d) \ asked # {}

\* C5: finished is set only when no candidate symptom is left unasked.
C5_FinishedOnlyWhenExhausted ==
  finished => \A d \in possible_diags : SymptomsOf(d) \subseteq asked

C5_Witness ==
  /\ finished
  /\ possible_diags # {}
  /\ asked # SymptomUniverse

\* C6: a finished session always shows a diagnosis of the knowledge base;
\* with possible_diags empty the scores cover every key.
C6_AlwaysADiagnosis ==
  finished =>
    /\ final_diag_key \in AllKeys
    /\ possible_diags = {} => DOMAIN scores = AllKeys

C6_Witness == finished /\ possible_diags = {} /\ final_diag_key \in AllKeys

\* C7: Yes adds the question to provided and asked, No adds it to asked only,
\* nothing else changes in the two sets, and they only grow until a reset.
C7_AnswerFrame ==
  [][ /\ ClickYes => /\ provided' = provided \cup {question}
                     /\ asked' = asked \cup {question}
      /\ ClickNo => /\ provided' = provided
                    /\ asked' = asked \cup {question}
      /\ \/ provided' = {} /\ asked' = {}
         \/ provided \subseteq provided' /\ asked \subseteq asked' ]_vars

C7_Witness ==
  /\ Cardinality(provided) >= 2
  /\ Cardinality(asked \ provided) >= 2

\* C8: the final diagnosis has the largest score of the scored keys, the
\* score being twice the required matches plus the optional matches; a
\* session finished with only localized_back_pain provided ends in Muscular
\* Strain without red flags.
C8_FinalIsMaxScore ==
  finished =>
    /\ DOMAIN scores = (IF possible_diags # {} THEN possible_diags ELSE AllKeys)
    /\ final_diag_key \in DOMAIN scores
    /\ \A k \in DOMAIN scores :
         /\ scores[k] = 2 * Cardinality(kb[k].required_symptoms \cap provided)
                          + Cardinality(kb[k].optional_symptoms \cap provided)
         /\ scores[k] <= scores[final_diag_key]
    /\ provided = {"localized_back_pain"} =>
         /\ kb[final_diag_key].name = "Muscular Strain"
         /\ red_flags_detected = {}

C8_Witness ==
  /\ finished
  /\ final_diag_key \in DOMAIN scores
  /\ \E k \in DOMAIN scores : 0 < scores[k] /\ scores[k] < scores[final_diag_key]

KbIndex(k) == CHOOSE i \in 1..Len(KbKeys) : KbKeys[i] = k

\* C9: among the scored diagnoses of maximal score the final diagnosis is the
\* first in the key order of the knowledge base.
C9_TieFirstInKbOrder ==
  finished =>
    /\ final_diag_key \in DOMAIN scores
    /\ \A k \in DOMAIN scores :
         scores[k] = scores[final_diag_key] => KbIndex(final_diag_key) <= KbIndex(k)

\* C10: the red flags of every diagnosis of the knowledge base (and so of
\* every diagnosis a session holds possible) are among its required and
\* optional symptoms.
C10_RedFlagsAreSymptoms ==
  \A d \in AllKeys \cup possible_diags : kb[d].red_flags \subseteq SymptomsOf(d)

\* C11: in a finished session the red flags reported are exactly the provided
\* symptoms that are red flags of the final diagnosis (the warning is shown
\* iff that set is not empty); red flags of other diagnoses are not reported.
C11_RedFlagsOfFinalOnly ==
  finished =>
    /\ red_flags_detected = provided \cap kb[final_diag_key].red_flags
    /\ red_flags_detected # {} <=>
         \E f \in kb[final_diag_key].red_flags : f \in provided
    /\ \A d \in AllKeys \ {final_diag_key} :
         red_flags_detected \cap (kb[d].red_flags \ kb[final_diag_key].red_flags) = {}

C11_Witness ==
  /\ finished
  /\ red_flags_detected # {}
  /\ red_flags_detected # kb[final_diag_key].red_flags

SciaticaScenario ==
  {"radiating_leg_pain", "pain_shoots_when_cough_or_sneeze", "numbness",
   "tingling", "urinary_incontinence"}

\* C12: a session finished with exactly radiating_leg_pain,
\* pain_shoots_when_cough_or_sneeze, numbness, tingling and
\* urinary_incontinence provided scores sciatica 9, above every other
\* diagnosis, ends in Sciatica / Radiculopathy and reports the red flag
\* urinary_incontinence.
C12_SciaticaScenario ==
  finished /\ provided = SciaticaScenario =>
    /\ "sciatica" \in DOMAIN scores
    /\ scores["sciatica"] = 9
    /\ \A k \in AllKeys \ {"sciatica"} : Score(k, provided) < 9
    /\ \A k \in DOMAIN scores \ {"sciatica"} : scores[k] < 9
    /\ kb[final_diag_key].name = "Sciatica / Radiculopathy"
    /\ red_flags_detected = {"urinary_incontinence"}

C12_Witness == finished /\ provided = SciaticaScenario

\* C13: until a reset possible_diags only shrinks: no step adds a diagnosis
\* to it, except the reset that starts a new session.
C13_PossibleOnlyShrinks ==
  [][ \/ possible_diags' \subseteq possible_diags
      \/ /\ finished
         /\ possible_diags' = AllKeys /\ asked' = {} /\ provided' = {} ]_vars

C13_Witness ==
  /\ possible_diags = {"sciatica"}
  /\ {"radiating_leg_pain", "numbness"} \subseteq provided
  /\ question # NoSymptom

\* C14: pruning is idempotent: pruning any set of diagnoses twice with the
\* same asked and provided gives what pruning it once gives, and pruning
\* again the possible_diags an execution left changes nothing.
C14_PruneIdempotent ==
  /\ \A D \in SUBSET AllKeys :
       Prune(Prune(D, asked, provided), asked, provided)
         = Prune(D, asked, provided)
  /\ Prune(possible_diags, asked, provided) = possible_diags

C14_Witness ==
  /\ possible_diags = {"muscular_strain"}
  /\ "radiating_leg_pain" \in asked \ provided
  /\ question # NoSymptom

\* C15: "Start New Diagnosis" in a finished session restores the fresh
\* session state: provided, asked and symptom_list empty, finished false,
\* possible_diags all keys.
C15_ResetRestoresFresh ==
  [][ finished /\ StartNewDiagnosis =>
        /\ provided' = {}
        /\ asked' = {}
        /\ finished' = FALSE
        /\ possible_diags' = AllKeys
        /\ symptom_list' = <<>>
        /\ answered' = 0 ]_vars

C15_Witness ==
  /\ ~finished
  /\ final_diag_key = "sciatica"
  /\ provided = {} /\ asked = {} /\ possible_diags = AllKeys

\* the symptom sets of the session the score is tried on
ScoreInputs == {provided, asked, asked \ provided}

\* every identifier of the knowledge base, red flags included
AllIdentifiers ==
  SymptomUniverse \cup UNION { kb[d].red_flags : d \in AllKeys }

\* C16: the score of a diagnosis is never negative and never falls when a
\* symptom is added to the symptom set.
C16_ScoreMonotone ==
  \A d \in AllKeys : \A P \in ScoreInputs :
    /\ Score(d, P) >= 0
    /\ \A sym \in AllIdentifiers : Score(d, P \cup {sym}) >= Score(d, P)

C16_Witness ==
  /\ Score("disc_herniation", provided) > 0
  /\ Score("disc_herniation", asked) > Score("disc_herniation", provided)
  /\ \E sym \in kb["disc_herniation"].optional_symptoms \ provided :
       Score("disc_herniation", provided \cup {sym})
         > Score("disc_herniation", provided)

\* C17: in a finished session every diagnosis left in possible_diags has all
\* its required symptoms provided, so a final diagnosis lacks a required
\* symptom only when possible_diags is empty; answering no to everything
\* ends in Muscular Strain with score 0.
C17_PossibleHaveRequired ==
  finished =>
    /\ \A d \in possible_diags : kb[d].required_symptoms \subseteq provided
    /\ ~(kb[final_diag_key].required_symptoms \subseteq provided)
         => possible_diags = {}
    /\ provided = {} =>
         /\ kb[final_diag_key].name = "Muscular Strain"
         /\ scores[final_diag_key] = 0

C17_Witness ==
  /\ finished
  /\ provided = {}
  /\ possible_diags = {}
  /\ final_diag_key = "muscular_strain"

\* the unasked candidates of the largest relevance
MostRelevant == { c \in Unasked : \A e \in Unasked : Relevance(e) <= Relevance(c) }

\* C18: the question is determined by asked and possible_diags alone: it is
\* the smallest identifier, in string order, among the unasked candidates of
\* the largest relevance, whatever the order of symptom_list; an execution
\* without a new answer renders the same question, and the first question of
\* a session is leg_weakness.
C18_QuestionDeterministic ==
  /\ [](question # NoSymptom =>
          /\ question \in MostRelevant
          /\ \A c \in MostRelevant \ {question} : StrLess(question, c)
          /\ asked = {} => question = "leg_weakness")
  /\ [][ Run /\ question # NoSymptom => question' = question ]_vars

C18_Witness ==
  /\ question = "fecal_incontinence"
  /\ "improves_with_rest" \in MostRelevant
  /\ symptom_list[1] = "improves_with_rest"

\* C19: provided is a subset of asked, and asked of the symptom universe.
C19_ProvidedAskedUniverse ==
  /\ provided \subseteq asked
  /\ asked \subseteq SymptomUniverse

C19_Witness ==
  /\ provided # {}
  /\ asked \ provided # {}
  /\ asked = SymptomUniverse

\* C20: a session that ends in Disc Herniation reports no red flag: the red
\* flags of disc_herniation are never asked and never provided, and a red
\* flag is reported only with Sciatica / Radiculopathy as final diagnosis.
C20_NoRedFlagWithDiscHerniation ==
  /\ kb["disc_herniation"].red_flags \cap (asked \cup provided) = {}
  /\ question \notin kb["disc_herniation"].red_flags
  /\ finished /\ final_diag_key = "disc_herniation" => red_flags_detected = {}
  /\ red_flags_detected # {} => final_diag_key = "sciatica"

C20_Witness ==
  /\ finished
  /\ final_diag_key = "disc_herniation"
  /\ "urinary_incontinence" \in provided
  /\ red_flags_detected = {}

====
